---- MODULE Spec2Model ----
(***************************************************************************)
(* Moon_Orbit.py: a tkinter form with five text fields (create_gui) whose  *)
(* button runs calculate_and_plot, which parses the fields with float(),   *)
(* samples the Earth and Moon paths with numpy and draws them with         *)
(* matplotlib.                                                             *)
(*                                                                         *)
(* Numbers.  A Python float is modelled as a record [n, d, p]:             *)
(*   d > 0          the finite value (n/d) * pi^p, n/d in lowest terms     *)
(*   d = 0, n = 0   nan                                                    *)
(*   d = 0, n # 0   inf with the sign of n                                 *)
(* Arithmetic on finite values is exact (rounding is not modelled); the    *)
(* special values follow IEEE-754 as Python and numpy apply them.          *)
(* A coordinate is a linear form  c + SUM k * f(a)  over f in {cos, sin},  *)
(* so that cosines and sines of angles that are no multiple of a quarter   *)
(* turn stay exact.                                                        *)
(***************************************************************************)
EXTENDS Integers, Sequences, FiniteSets, TLC

VARIABLES
    running,    \* the Tk window exists (between create_gui and its mainloop's end)
    entries,    \* key -> text of the ttk.Entry widget, << >> while no window exists
    event,      \* the latest UI event: "none", "launch", "edit", "submit", "close"
    outcome,    \* how the latest event's handler ended
    vals,       \* calculate_and_plot's vals, << >> if not computed in the latest event
    t,          \* calculate_and_plot's t (sample times), None if not computed
    xe, ye,     \* Earth coordinates, None if not computed
    xm, ym,     \* Moon coordinates, None if not computed
    calls,      \* the renderer and dialog calls of the latest event, in order
    reported    \* Tk has reported a ZeroDivisionError that left the handler in this run

vars == <<running, entries, event, outcome, vals, t, xe, ye, xm, ym, calls, reported>>

(***************************************************************************)
(* Bounds of the model.                                                    *)
(***************************************************************************)
\* at most this many fields hold a text other than their default at any time
MaxChanged == 1

(***************************************************************************)
(* Python floats.                                                          *)
(***************************************************************************)
RECURSIVE Gcd(_, _)
Gcd(a, b) == IF b = 0 THEN a ELSE Gcd(b, a % b)

Abs(x) == IF x < 0 THEN -x ELSE x

Sgn(x) == IF x < 0 THEN -1 ELSE IF x > 0 THEN 1 ELSE 0

NaN == [n |-> 0, d |-> 0, p |-> 0]

Inf(s) == [n |-> s, d |-> 0, p |-> 0]

\* the finite value (n/d) * pi^p in lowest terms; zero carries no power of pi
Num(n, d, p) ==
    IF n = 0 THEN [n |-> 0, d |-> 1, p |-> 0]
    ELSE LET g == Gcd(Abs(n), Abs(d))
         IN  [n |-> Sgn(d) * (n \div g), d |-> Abs(d) \div g, p |-> p]

Lit(i) == [n |-> i, d |-> 1, p |-> 0]

IsNaN(x) == x.d = 0 /\ x.n = 0

IsInf(x) == x.d = 0 /\ x.n # 0

IsFinite(x) == x.d > 0

IsZero(x) == x.d > 0 /\ x.n = 0

\* x > 0 as Python evaluates it (False for nan)
Positive(x) == x.n > 0

\* x * y
Mul(x, y) ==
    IF IsNaN(x) \/ IsNaN(y) THEN NaN
    ELSE IF IsInf(x) \/ IsInf(y)
         THEN IF x.n = 0 \/ y.n = 0 THEN NaN ELSE Inf(Sgn(x.n) * Sgn(y.n))
         ELSE Num(x.n * y.n, x.d * y.d, x.p + y.p)

\* x / y for y # 0
Div(x, y) ==
    IF IsNaN(x) \/ IsNaN(y) THEN NaN
    ELSE IF IsInf(x) THEN (IF IsInf(y) THEN NaN ELSE Inf(Sgn(x.n) * Sgn(y.n)))
    ELSE IF IsInf(y) THEN Lit(0)
    ELSE Num(x.n * y.d, x.d * y.n, x.p - y.p)

\* x + y, both without a power of pi
Add(x, y) ==
    IF IsNaN(x) \/ IsNaN(y) THEN NaN
    ELSE IF IsInf(x) THEN (IF IsInf(y) /\ y.n # x.n THEN NaN ELSE x)
    ELSE IF IsInf(y) THEN y
    ELSE IF x.n = 0 THEN y
    ELSE IF y.n = 0 THEN x
    ELSE LET g == Gcd(x.d, y.d)
         IN  Num(x.n * (y.d \div g) + y.n * (x.d \div g), (x.d \div g) * y.d, 0)

Neg(x) == [x EXCEPT !.n = -x.n]

\* np.pi
pi == [n |-> 1, d |-> 1, p |-> 1]

(***************************************************************************)
(* float(str).  A text is a sequence of one-character strings.  The model  *)
(* covers surrounding blanks, a sign, "nan", "inf", "infinity" in either   *)
(* case and decimal numerals with an optional point; exponents and digit   *)
(* separators are outside the alphabet of the texts the model enters.      *)
(***************************************************************************)
Digits == {"0", "1", "2", "3", "4", "5", "6", "7", "8", "9"}

DigitVal(c) ==
    CASE c = "0" -> 0 [] c = "1" -> 1 [] c = "2" -> 2 [] c = "3" -> 3 [] c = "4" -> 4
      [] c = "5" -> 5 [] c = "6" -> 6 [] c = "7" -> 7 [] c = "8" -> 8 [] c = "9" -> 9

Lower(c) ==
    CASE c = "N" -> "n" [] c = "A" -> "a" [] c = "I" -> "i" [] c = "F" -> "f"
      [] c = "T" -> "t" [] c = "Y" -> "y" [] OTHER -> c

RECURSIVE Strip(_)
Strip(s) ==
    IF s = << >> THEN s
    ELSE IF Head(s) = " " THEN Strip(Tail(s))
    ELSE IF s[Len(s)] = " " THEN Strip(SubSeq(s, 1, Len(s) - 1))
    ELSE s

RECURSIVE DigitsVal(_)
DigitsVal(s) == IF s = << >> THEN 0 ELSE 10 * DigitsVal(SubSeq(s, 1, Len(s) - 1)) + DigitVal(s[Len(s)])

RECURSIVE Pow10(_)
Pow10(k) == IF k = 0 THEN 1 ELSE 10 * Pow10(k - 1)

AllDigits(s) == \A i \in 1..Len(s) : s[i] \in Digits

\* the value of an unsigned numeral, or the failure of the conversion
Unsigned(s) ==
    LET low  == [i \in 1..Len(s) |-> Lower(s[i])]
        dots == {i \in 1..Len(s) : s[i] = "."}
    IN  IF low = <<"n", "a", "n">> THEN [ok |-> TRUE, v |-> NaN]
        ELSE IF low = <<"i", "n", "f">> \/ low = <<"i", "n", "f", "i", "n", "i", "t", "y">>
             THEN [ok |-> TRUE, v |-> Inf(1)]
        ELSE IF dots = {}
             THEN IF s # << >> /\ AllDigits(s)
                  THEN [ok |-> TRUE, v |-> Lit(DigitsVal(s))]
                  ELSE [ok |-> FALSE, v |-> NaN]
        ELSE LET k    == CHOOSE i \in dots : \A j \in dots : i <= j
                 ip   == SubSeq(s, 1, k - 1)
                 fp   == SubSeq(s, k + 1, Len(s))
             IN  IF AllDigits(ip) /\ AllDigits(fp) /\ Len(ip) + Len(fp) > 0
                 THEN [ok |-> TRUE,
                       v  |-> Num(DigitsVal(ip) * Pow10(Len(fp)) + DigitsVal(fp), Pow10(Len(fp)), 0)]
                 ELSE [ok |-> FALSE, v |-> NaN]

\* float(text): ok = FALSE stands for the ValueError
float(text) ==
    LET s == Strip(text)
    IN  IF s # << >> /\ Head(s) = "-"
        THEN LET r == Unsigned(Tail(s)) IN [ok |-> r.ok, v |-> Neg(r.v)]
        ELSE IF s # << >> /\ Head(s) = "+" THEN Unsigned(Tail(s))
        ELSE Unsigned(s)

\* int(x) for a float x: "ValueError" for nan, "OverflowError" for inf, else truncation
int(x) ==
    IF IsNaN(x) THEN [exc |-> "ValueError", v |-> 0]
    ELSE IF IsInf(x) THEN [exc |-> "OverflowError", v |-> 0]
    ELSE [exc |-> "none", v |-> Sgn(x.n) * (Abs(x.n) \div x.d)]

(***************************************************************************)
(* Coordinates: linear forms  c + SUM k * f(a).  A term [k, f, a] stands   *)
(* for k * f(a), f being "cos" or "sin" and a an angle in radians that is  *)
(* no multiple of a quarter turn (those are evaluated) and, when it is a   *)
(* rational multiple of pi, lies in (0, 2 pi).  nan and inf are forms      *)
(* without terms.                                                          *)
(***************************************************************************)
Const(x) == [c |-> x, terms |-> {}]

\* the angle x reduced to [0, 2 pi) when it is a rational multiple of pi
Reduce(x) == IF x.p = 1 THEN Num(x.n % (2 * x.d), x.d, 1) ELSE x

Trig(f, x, atQuarter) ==
    IF ~IsFinite(x) THEN Const(NaN)
    ELSE LET a == Reduce(x)
         IN  IF IsZero(a) THEN Const(Lit(atQuarter[1]))
             ELSE IF a.p = 1 /\ a.d = 2 /\ a.n = 1 THEN Const(Lit(atQuarter[2]))
             ELSE IF a.p = 1 /\ a.d = 1 /\ a.n = 1 THEN Const(Lit(atQuarter[3]))
             ELSE IF a.p = 1 /\ a.d = 2 /\ a.n = 3 THEN Const(Lit(atQuarter[4]))
             ELSE [c |-> Lit(0), terms |-> {[k |-> Lit(1), f |-> f, a |-> a]}]

\* np.cos, np.sin of one element
cos(x) == Trig("cos", x, <<1, 0, -1, 0>>)

sin(x) == Trig("sin", x, <<0, 1, 0, -1>>)

\* k * L for a float k and a form L
LinScale(k, L) ==
    IF L.terms = {} THEN Const(Mul(k, L.c)) ELSE
    LET c  == IF L.terms # {} /\ IsZero(L.c) THEN Lit(0) ELSE Mul(k, L.c)
        ts == {[k |-> Mul(k, tm.k), f |-> tm.f, a |-> tm.a] : tm \in L.terms}
    IN  IF IsNaN(k) \/ IsNaN(c) THEN Const(NaN)
        ELSE IF IsInf(c) THEN Const(c)
        ELSE [c |-> c, terms |-> {tm \in ts : ~IsZero(tm.k)}]

CoefOf(T, f, a) ==
    IF \E tm \in T : tm.f = f /\ tm.a = a
    THEN (CHOOSE tm \in T : tm.f = f /\ tm.a = a).k
    ELSE Lit(0)

\* A + B for two forms
LinAdd(A, B) ==
    IF A.terms = {} /\ B.terms = {} THEN Const(Add(A.c, B.c)) ELSE
    IF /\ IsFinite(A.c) /\ IsFinite(B.c)
       /\ \A ta \in A.terms, tb \in B.terms : ta.f # tb.f \/ ta.a # tb.a
    THEN [c |-> Add(A.c, B.c), terms |-> A.terms \cup B.terms] ELSE
    LET c    == Add(A.c, B.c)
        keys == {<<tm.f, tm.a>> : tm \in A.terms \cup B.terms}
        ts   == {[k |-> Add(CoefOf(A.terms, key[1], key[2]), CoefOf(B.terms, key[1], key[2])),
                  f |-> key[1], a |-> key[2]] : key \in keys}
    IN  IF IsNaN(c) \/ \E tm \in ts : IsNaN(tm.k) THEN Const(NaN)
        ELSE IF IsInf(c) THEN Const(c)
        ELSE [c |-> c, terms |-> {tm \in ts : ~IsZero(tm.k)}]

(***************************************************************************)
(* numpy arrays.  An array is held as the numpy expression that produced   *)
(* it; Size(x) is its length and At(x, i) its i-th element (1-based), a    *)
(* linear form.  Elementwise operations and scalar broadcasting are        *)
(* evaluated element by element, as numpy does.                            *)
(*   [op |-> "linspace", start, stop, num, step]        np.linspace(...)    *)
(*   [op |-> "mul", k, x]                    k * x for a Python float k    *)
(*   [op |-> "cos", x], [op |-> "sin", x]    np.cos(x), np.sin(x)          *)
(*   [op |-> "add", x, y]                    x + y                         *)
(***************************************************************************)
None == [op |-> "none"]

\* np.linspace(start, stop, num), endpoint included: numpy computes the step once
linspace(start, stop, num) ==
    [op |-> "linspace", start |-> start, stop |-> stop, num |-> num,
     step |-> Div(Add(stop, Neg(start)), Lit(num - 1))]

\* faulty variant of linspace_at: the endpoint is left out (endpoint=False)
linspace_at_open(x, i) ==
    Add(Mul(Lit(i), Div(Add(x.stop, Neg(x.start)), Lit(x.num))), x.start)

\* element i (0-based) of the array x made by np.linspace
linspace_at(x, i) ==
    LET y == IF IsZero(x.step)
             THEN Mul(Div(Lit(i), Lit(x.num - 1)), Add(x.stop, Neg(x.start)))
             ELSE Mul(Lit(i), x.step)
    IN  IF i = x.num - 1 /\ x.num > 1 THEN x.stop ELSE Add(y, x.start)

RECURSIVE Size(_)
Size(x) ==
    CASE x.op = "linspace" -> x.num
      [] x.op = "mul" -> Size(x.x)
      [] x.op = "cos" -> Size(x.x)
      [] x.op = "sin" -> Size(x.x)
      [] x.op = "add" -> Size(x.x)
      [] OTHER -> 0

RECURSIVE At(_, _)
At(x, i) ==
    CASE x.op = "linspace" -> Const(linspace_at(x, i - 1))
      [] x.op = "mul" -> LinScale(x.k, At(x.x, i))
      [] x.op = "cos" -> cos(At(x.x, i).c)
      [] x.op = "sin" -> sin(At(x.x, i).c)
      [] x.op = "add" -> LinAdd(At(x.x, i), At(x.y, i))

(***************************************************************************)
(* The trajectory computation of calculate_and_plot.                       *)
(***************************************************************************)
sampleCount == 10000

\* faulty variant of calc_t: a tenth of the samples
calc_t_fewer(YEAR_DAYS) == linspace(Lit(0), YEAR_DAYS, 1000)

\* t = np.linspace(0, YEAR_DAYS, 10000)
calc_t(YEAR_DAYS) == linspace(Lit(0), YEAR_DAYS, sampleCount)

\* omega = 2 * np.pi / period, for period # 0
calc_omega(period) == Div(Mul(Lit(2), pi), period)

\* xe = AU * np.cos(omega_e * t)
calc_xe(AU, omega_e, tt) ==
    [op |-> "mul", k |-> AU, x |-> [op |-> "cos", x |-> [op |-> "mul", k |-> omega_e, x |-> tt]]]

\* ye = AU * np.sin(omega_e * t)
calc_ye(AU, omega_e, tt) ==
    [op |-> "mul", k |-> AU, x |-> [op |-> "sin", x |-> [op |-> "mul", k |-> omega_e, x |-> tt]]]

\* faulty variant of calc_xm: the scale factor is forgotten
calc_xm_unscaled(xe_, EM_DIST, SCALE, omega_m, tt) ==
    [op |-> "add", x |-> xe_,
     y  |-> [op |-> "mul", k |-> EM_DIST,
             x  |-> [op |-> "cos", x |-> [op |-> "mul", k |-> omega_m, x |-> tt]]]]

\* xm = xe + (EM_DIST * SCALE) * np.cos(omega_m * t)
calc_xm(xe_, EM_DIST, SCALE, omega_m, tt) ==
    [op |-> "add", x |-> xe_,
     y  |-> [op |-> "mul", k |-> Mul(EM_DIST, SCALE),
             x  |-> [op |-> "cos", x |-> [op |-> "mul", k |-> omega_m, x |-> tt]]]]

\* faulty variant of calc_ym: the scale factor also multiplies the angle
calc_ym_scaled_angle(ye_, EM_DIST, SCALE, omega_m, tt) ==
    [op |-> "add", x |-> ye_,
     y  |-> [op |-> "mul", k |-> Mul(EM_DIST, SCALE),
             x  |-> [op |-> "sin", x |-> [op |-> "mul", k |-> Mul(omega_m, SCALE), x |-> tt]]]]

\* ym = ye + (EM_DIST * SCALE) * np.sin(omega_m * t)
calc_ym(ye_, EM_DIST, SCALE, omega_m, tt) ==
    [op |-> "add", x |-> ye_,
     y  |-> [op |-> "mul", k |-> Mul(EM_DIST, SCALE),
             x  |-> [op |-> "sin", x |-> [op |-> "mul", k |-> omega_m, x |-> tt]]]]

(***************************************************************************)
(* calculate_and_plot(entries): the whole handler of the button.  The      *)
(* result records how the call ended, its locals and the calls it made to  *)
(* matplotlib and to messagebox, in order.                                 *)
(*   "shown"              plt.show() returned                              *)
(*   "showerror"          except ValueError: messagebox.showerror(...)     *)
(*   "ZeroDivisionError"  raised by 2 * np.pi / 0.0, not caught            *)
(*   "OverflowError"      raised by int(inf), not caught                   *)
(* int(nan) raises ValueError, which the except clause catches.            *)
(***************************************************************************)
Keys == {"AU", "EM_DIST", "YEAR", "MONTH", "SCALE"}

Call(op, args) == [op |-> op, args |-> args]

showerror == Call("messagebox.showerror", << >>)

Locals(exc, v, tt, xe_, ye_, xm_, ym_, cs) ==
    [exc |-> exc, vals |-> v, t |-> tt, xe |-> xe_, ye |-> ye_, xm |-> xm_, ym |-> ym_,
     calls |-> cs]

\* faulty variant of plot_head: the Earth orbit is drawn before the Sun
plot_head_earth_first(xe_, ye_) ==
    << Call("plt.subplots", << >>),
       Call("ax.plot", <<"Earth", xe_, ye_>>),
       Call("ax.plot", <<"Sun", Const(Lit(0)), Const(Lit(0))>>) >>

\* fig, ax = plt.subplots(...); ax.plot(0, 0, ...); ax.plot(xe, ye, ...)
plot_head(xe_, ye_) ==
    << Call("plt.subplots", << >>),
       Call("ax.plot", <<"Sun", Const(Lit(0)), Const(Lit(0))>>),
       Call("ax.plot", <<"Earth", xe_, ye_>>) >>

\* ax.plot(xm, ym, ..., label=f'... {int(SCALE)}x') up to plt.show()
plot_tail(xm_, ym_, scale, YEAR_DAYS) ==
    << Call("ax.plot", <<"Moon", xm_, ym_, scale>>),
       Call("ax.set_aspect", <<"equal">>),
       Call("ax.set_title", <<YEAR_DAYS>>),
       Call("ax.set_xlabel", << >>),
       Call("ax.set_ylabel", << >>),
       Call("ax.legend", << >>),
       Call("ax.grid", << >>),
       Call("plt.tight_layout", << >>),
       Call("plt.show", << >>) >>

\* lines 71-91, with the locals computed before them
plot(v, tt, xe_, ye_, xm_, ym_, scale) ==
    IF scale.exc # "none"
    THEN Locals(scale.exc, v, tt, xe_, ye_, xm_, ym_, plot_head(xe_, ye_))
    ELSE Locals("none", v, tt, xe_, ye_, xm_, ym_,
                plot_head(xe_, ye_) \o plot_tail(xm_, ym_, scale.v, v.YEAR))

\* lines 62-67, with t, omega_e and omega_m computed before them
positions(v, tt, omega_e, omega_m, xe_, ye_) ==
    plot(v, tt, xe_, ye_,
         calc_xm(xe_, v.EM_DIST, v.SCALE, omega_m, tt),
         calc_ym(ye_, v.EM_DIST, v.SCALE, omega_m, tt),
         int(v.SCALE))

\* lines 58-59, with t computed before them
rates(v, tt, omega_e, omega_m) ==
    positions(v, tt, omega_e, omega_m, calc_xe(v.AU, omega_e, tt), calc_ye(v.AU, omega_e, tt))

\* lines 49-91, for the values vals of the five fields
compute(v, tt) ==
    IF IsZero(v.YEAR) \/ IsZero(v.MONTH)
    THEN Locals("ZeroDivisionError", v, tt, None, None, None, None, << >>)
    ELSE rates(v, tt, calc_omega(v.YEAR), calc_omega(v.MONTH))

\* line 47 and what follows it, for the conversions parsed of the five texts
convert(parsed) ==
    IF \E k \in Keys : ~parsed[k].ok
    THEN Locals("ValueError", << >>, None, None, None, None, None, << >>)
    ELSE compute([k \in Keys |-> parsed[k].v], calc_t(parsed.YEAR.v))

\* the body of the try statement: exc is the exception that ended it, or "none"
try_body(e) == convert([k \in Keys |-> float(e[k])])

\* faulty variant of caught: a bare except clause
caught_any(exc) == TRUE

\* except ValueError: which exceptions the clause catches
caught(exc) == exc = "ValueError"

\* faulty variant of except_body: the clause swallows the error (except ValueError: pass)
except_pass(cs) == cs

\* the body of the except clause, after the calls cs already made
except_body(cs) == cs \o <<showerror>>

\* the try statement, for the result b of its body
try_except(b) ==
    [outcome |-> IF b.exc = "none" THEN "shown"
                 ELSE IF caught(b.exc) THEN "showerror"
                 ELSE b.exc,
     vals |-> b.vals, t |-> b.t,
     xe |-> b.xe, ye |-> b.ye, xm |-> b.xm, ym |-> b.ym,
     calls |-> IF b.exc # "none" /\ caught(b.exc) THEN except_body(b.calls) ELSE b.calls]

calculate_and_plot(e) == try_except(try_body(e))

(***************************************************************************)
(* create_gui and the events of its main loop.                             *)
(***************************************************************************)
\* faulty variant of config_items: the year rounded to whole days
config_items_whole_year ==
    [AU      |-> <<"1", "4", "9", "6", "0", "0", "0", "0", "0">>,
     EM_DIST |-> <<"3", "8", "4", "4", "0", "0">>,
     YEAR    |-> <<"3", "6", "5">>,
     MONTH   |-> <<"2", "7", ".", "3", "2">>,
     SCALE   |-> <<"5", "0">>]

\* config_items: key -> default text
config_items ==
    [AU      |-> <<"1", "4", "9", "6", "0", "0", "0", "0", "0">>,
     EM_DIST |-> <<"3", "8", "4", "4", "0", "0">>,
     YEAR    |-> <<"3", "6", "5", ".", "2", "5">>,
     MONTH   |-> <<"2", "7", ".", "3", "2">>,
     SCALE   |-> <<"5", "0">>]

\* the texts the user types into a field
EditTexts ==
    { <<"a", "b", "c">>, << >>, <<"n", "a", "n">>, <<"i", "n", "f">>,
      <<"0">>, <<"-", "1">>, <<" ", "4">> }

Changed(e) == Cardinality({k \in Keys : e[k] # config_items[k]})

NoEffects ==
    /\ outcome' = "none"
    /\ vals' = << >> /\ t' = None
    /\ xe' = None /\ ye' = None /\ xm' = None /\ ym' = None
    /\ calls' = << >>

Init ==
    /\ running = FALSE
    /\ entries = << >>
    /\ event = "none"
    /\ outcome = "none"
    /\ vals = << >> /\ t = None
    /\ xe = None /\ ye = None /\ xm = None /\ ym = None
    /\ calls = << >>
    /\ reported = FALSE

\* create_gui() up to root.mainloop(): each Entry receives its default
create_gui ==
    /\ ~running
    /\ running' = TRUE
    /\ entries' = [k \in Keys |-> config_items[k]]
    /\ event' = "launch"
    /\ reported' = FALSE
    /\ NoEffects

\* the user replaces the text of one field
Edit ==
    /\ running
    /\ \E k \in Keys : \E txt \in EditTexts \cup {config_items[k]} :
          /\ txt # entries[k]
          /\ entries' = [entries EXCEPT ![k] = txt]
          /\ Changed(entries') <= MaxChanged
    /\ event' = "edit"
    /\ NoEffects
    /\ UNCHANGED <<running, reported>>

\* the effects r of one call of the handler
Effects(r) ==
    /\ outcome' = r.outcome
    /\ vals' = r.vals /\ t' = r.t
    /\ xe' = r.xe /\ ye' = r.ye /\ xm' = r.xm /\ ym' = r.ym
    /\ calls' = r.calls

\* faulty variant of Submit: after the error dialog the fields are reset to the defaults
Submit_resetting ==
    /\ running
    /\ Effects(calculate_and_plot(entries))
    /\ event' = "submit"
    /\ reported' = (reported \/ outcome' = "ZeroDivisionError")
    /\ entries' = IF outcome' = "showerror" THEN [k \in Keys |-> config_items[k]] ELSE entries
    /\ UNCHANGED running

\* the user presses the button: command=lambda: calculate_and_plot(entries).
\* An exception the handler does not catch is reported by Tk and the main
\* loop goes on.
Submit ==
    /\ running
    /\ Effects(calculate_and_plot(entries))
    /\ event' = "submit"
    /\ reported' = (reported \/ outcome' = "ZeroDivisionError")
    /\ UNCHANGED <<running, entries>>

\* the user closes the window: root.mainloop() returns and the program ends
Close ==
    /\ running
    /\ running' = FALSE
    /\ entries' = << >>
    /\ event' = "close"
    /\ NoEffects
    /\ UNCHANGED reported

Next == create_gui \/ Edit \/ Submit \/ Close

Spec == Init /\ [][Next]_vars

(***************************************************************************)
(* Vocabulary of the properties.                                           *)
(***************************************************************************)
\* x < y for two floats without a power of pi (False if either is nan)
Less(x, y) == Positive(Add(y, Neg(x)))

\* every field text converts
AllParse(e) == \A k \in Keys : float(e[k]).ok

\* valid OrbitParameters: five positive real numbers
Valid(v) == v # << >> /\ \A k \in Keys : IsFinite(v[k]) /\ Positive(v[k])

\* every field text converts to a positive real number
ValidTexts(e) == AllParse(e) /\ Valid([k \in Keys |-> float(e[k]).v])

RendererOps == {"plt.subplots", "ax.plot", "ax.set_aspect", "ax.set_title", "ax.set_xlabel",
                "ax.set_ylabel", "ax.legend", "ax.grid", "plt.tight_layout", "plt.show"}

NoRendererCall == \A i \in 1..Len(calls) : calls[i].op \notin RendererOps

DialogShown == \E i \in 1..Len(calls) : calls[i] = showerror

NothingComputed == vals = << >> /\ t = None /\ xe = None /\ ye = None /\ xm = None /\ ym = None

\* A - B for two forms
LinSub(A, B) == LinAdd(A, LinScale(Lit(-1), B))

\* the length of the vector (dx, dy), where the forms determine it
Magnitude(dx, dy) ==
    IF dx.terms = {} /\ dy.terms = {}
    THEN IF IsZero(dy.c) THEN [dx.c EXCEPT !.n = Abs(@)]
         ELSE IF IsZero(dx.c) THEN [dy.c EXCEPT !.n = Abs(@)]
         ELSE NaN
    ELSE IF /\ IsZero(dx.c) /\ IsZero(dy.c)
            /\ \E a \in {tm.a : tm \in dx.terms}, k \in {tm.k : tm \in dx.terms} :
                  /\ dx.terms = {[k |-> k, f |-> "cos", a |-> a]}
                  /\ dy.terms = {[k |-> k, f |-> "sin", a |-> a]}
         THEN LET k == (CHOOSE tm \in dx.terms : TRUE).k IN [k EXCEPT !.n = Abs(@)]
         ELSE NaN

\* the direction of the vector (dx, dy) of positive length, as an angle in [0, 2 pi)
Direction(dx, dy) ==
    IF dx.terms = {} /\ dy.terms = {}
    THEN IF IsZero(dy.c) /\ Positive(dx.c) THEN Lit(0)
         ELSE IF IsZero(dx.c) /\ Positive(dy.c) THEN Num(1, 2, 1)
         ELSE IF IsZero(dy.c) /\ Positive(Neg(dx.c)) THEN Num(1, 1, 1)
         ELSE IF IsZero(dx.c) /\ Positive(Neg(dy.c)) THEN Num(3, 2, 1)
         ELSE NaN
    ELSE IF \E tm \in dx.terms : dx.terms = {tm} /\ Positive(tm.k) /\ tm.f = "cos"
                                 /\ dy.terms = {[tm EXCEPT !.f = "sin"]}
         THEN (CHOOSE tm \in dx.terms : TRUE).a
         ELSE NaN

(***************************************************************************)
(* C1: a submission in which some field text does not convert shows the    *)
(* error dialog and nothing else: no value, sample time or position is     *)
(* computed and the renderer is not called.                                *)
(***************************************************************************)
C1_UnparsableFieldOnlyDialog ==
    (event = "submit" /\ ~AllParse(entries)) =>
        /\ outcome = "showerror"
        /\ calls = <<showerror>>
        /\ NoRendererCall
        /\ NothingComputed

C1_Witness ==
    /\ event = "submit"
    /\ ~float(entries.SCALE).ok
    /\ AllParse([entries EXCEPT !.SCALE = config_items.SCALE])
    /\ calls = <<showerror>>

(***************************************************************************)
(* C2: whenever a submission shows the error dialog, some field text did   *)
(* not convert and no renderer operation came before the dialog.           *)
(***************************************************************************)
C2_DialogOnlyForParseFailure ==
    (event = "submit" /\ DialogShown) =>
        /\ ~AllParse(entries)
        /\ NoRendererCall

RenderedInOrder ==
    /\ outcome = "shown"
    /\ vals = [k \in Keys |-> float(entries[k]).v]
    /\ t = calc_t(vals.YEAR)
    /\ xe = calc_xe(vals.AU, calc_omega(vals.YEAR), t)
    /\ ye = calc_ye(vals.AU, calc_omega(vals.YEAR), t)
    /\ xm = calc_xm(xe, vals.EM_DIST, vals.SCALE, calc_omega(vals.MONTH), t)
    /\ ym = calc_ym(ye, vals.EM_DIST, vals.SCALE, calc_omega(vals.MONTH), t)
    /\ Len(calls) = 12
    /\ calls[1].op = "plt.subplots"
    /\ calls[2] = Call("ax.plot", <<"Sun", Const(Lit(0)), Const(Lit(0))>>)
    /\ calls[3] = Call("ax.plot", <<"Earth", xe, ye>>)
    /\ calls[4].op = "ax.plot" /\ calls[4].args[1] = "Moon"
    /\ calls[4].args[2] = xm /\ calls[4].args[3] = ym
    /\ calls[12].op = "plt.show"
    /\ \A i \in 1..11 : calls[i].op # "plt.show"
    /\ \A i \in 5..12 : calls[i].op # "ax.plot"
    /\ ~DialogShown

OnlySubmitComputes == event # "submit" => (NothingComputed /\ calls = << >>)

(***************************************************************************)
(* C3, as stated: a submission in which all five texts convert to positive *)
(* numbers (the float inf included) passes exactly the converted values to *)
(* the trajectory computation and then calls the renderer with the Sun     *)
(* point, the Earth path, the Moon path and, last, show, without an error  *)
(* dialog; the trajectory is computed in no event other than a submission. *)
(***************************************************************************)
C3_PositiveRendersInOrder ==
    /\ (event = "submit" /\ AllParse(entries) /\ \A k \in Keys : Positive(float(entries[k]).v))
          => RenderedInOrder
    /\ OnlySubmitComputes

(***************************************************************************)
(* C3, amended: a submission in which all five texts convert to positive   *)
(* finite numbers passes exactly the converted values to the trajectory    *)
(* computation and then calls the renderer with the Sun point, the Earth   *)
(* path, the Moon path and, last, show, without an error dialog; the       *)
(* trajectory is computed in no event other than a submission.             *)
(***************************************************************************)
C3_PositiveFiniteRendersInOrder ==
    /\ (event = "submit" /\ ValidTexts(entries)) => RenderedInOrder
    /\ OnlySubmitComputes

C3_Witness ==
    /\ event = "submit"
    /\ ValidTexts(entries)
    /\ Changed(entries) > 0
    /\ Len(calls) = 12 /\ calls[12].op = "plt.show"

DefaultsAre(au) ==
    [AU |-> Lit(au), EM_DIST |-> Lit(384400), YEAR |-> Num(36525, 100, 0),
     MONTH |-> Num(2732, 100, 0), SCALE |-> Lit(50)]

LaunchGives(d) ==
    /\ event = "launch" => [k \in Keys |-> float(entries[k])] = [k \in Keys |-> [ok |-> TRUE, v |-> d[k]]]
    /\ (event = "submit" /\ entries = [k \in Keys |-> config_items[k]]) => vals = d

(***************************************************************************)
(* C4, as stated: after create_gui and before any edit the five fields     *)
(* hold the defaults 150000000, 384400, 365.25, 27.32 and 50, and a        *)
(* submission of the unedited form passes these values to the trajectory   *)
(* computation.                                                            *)
(***************************************************************************)
C4_DefaultsAtLaunch == LaunchGives(DefaultsAre(150000000))

(***************************************************************************)
(* C4, amended: after create_gui and before any edit the five fields hold  *)
(* the defaults 149600000, 384400, 365.25, 27.32 and 50, and a submission  *)
(* of the unedited form passes these values to the trajectory computation. *)
(***************************************************************************)
C4_DefaultsAtLaunchAmended == LaunchGives(DefaultsAre(149600000))

C4_Witness ==
    /\ event = "submit"
    /\ entries = [k \in Keys |-> config_items[k]]
    /\ outcome = "shown"
    /\ vals.AU = Lit(149600000)

(***************************************************************************)
(* C5: a submission leaves the text of every field as it was, however it   *)
(* ends, and the values it computes with are those of the texts the fields *)
(* hold when it starts; the texts change only by an edit, at launch and    *)
(* when the window closes.                                                 *)
(***************************************************************************)
C5_SubmitKeepsFields ==
    [][/\ event' = "submit" => entries' = entries
       /\ (event' = "submit" /\ AllParse(entries)) => vals' = [k \in Keys |-> float(entries[k]).v]
       /\ entries' # entries => event' \in {"launch", "edit", "close"}]_vars

C5_Witness ==
    /\ event = "submit"
    /\ outcome = "showerror"
    /\ entries.YEAR = <<"a", "b", "c">>

(***************************************************************************)
(* C6: whenever all five values are positive, the sample times and the     *)
(* four coordinate arrays have exactly 10000 elements each.                *)
(***************************************************************************)
C6_PathsHaveSampleCount ==
    (event = "submit" /\ vals # << >> /\ \A k \in Keys : Positive(vals[k])) =>
        /\ Size(t) = 10000
        /\ Size(xe) = 10000 /\ Size(ye) = 10000
        /\ Size(xm) = 10000 /\ Size(ym) = 10000

C6_Witness ==
    /\ event = "submit" /\ Valid(vals)
    /\ vals.YEAR = Lit(4)
    /\ Size(xm) = 10000

TimesIncreaseEvenly ==
    /\ Size(t) = sampleCount
    /\ At(t, 1) = Const(Lit(0))
    /\ At(t, Size(t)) = Const(vals.YEAR)
    /\ LET gap == Add(At(t, 2).c, Neg(At(t, 1).c))
       IN  /\ Positive(gap)
           /\ \A i \in 1..(Size(t) - 1) : Add(At(t, i + 1).c, Neg(At(t, i).c)) = gap

(***************************************************************************)
(* C7, as stated: in every invocation of the trajectory computation (here: *)
(* every one that goes on to compute the positions) the sample times are   *)
(* sampleCount values, strictly increasing and evenly spaced, the first 0  *)
(* and the last yearLengthDays.                                            *)
(***************************************************************************)
C7_TimesIncreaseEvenly == (event = "submit" /\ xm # None) => TimesIncreaseEvenly

(***************************************************************************)
(* C7, amended: in every invocation of the trajectory computation with a   *)
(* positive finite yearLengthDays the sample times are sampleCount values, *)
(* strictly increasing and evenly spaced, the first 0 and the last         *)
(* yearLengthDays.                                                         *)
(***************************************************************************)
C7_TimesIncreaseEvenlyPositiveYear ==
    (event = "submit" /\ t # None /\ IsFinite(vals.YEAR) /\ Positive(vals.YEAR))
        => TimesIncreaseEvenly

C7_Witness ==
    /\ event = "submit" /\ t # None
    /\ vals.YEAR = Num(36525, 100, 0)
    /\ At(t, 2) = Const(Num(36525, 999900, 0))
    /\ At(t, sampleCount) = Const(vals.YEAR)

(***************************************************************************)
(* C8: for valid parameters the first Earth position is                    *)
(* (sunEarthDistance, 0) and the first Moon position is                    *)
(* (sunEarthDistance + earthMoonDistance * moonScaleFactor, 0).            *)
(***************************************************************************)
C8_FirstSample ==
    (event = "submit" /\ Valid(vals)) =>
        /\ At(xe, 1) = Const(vals.AU)
        /\ At(ye, 1) = Const(Lit(0))
        /\ At(xm, 1) = Const(Add(vals.AU, Mul(vals.EM_DIST, vals.SCALE)))
        /\ At(ym, 1) = Const(Lit(0))

C8_Witness ==
    /\ event = "submit" /\ Valid(vals)
    /\ At(xe, 1) = Const(Lit(149600000))
    /\ At(xm, 1) = Const(Lit(168820000))

(***************************************************************************)
(* C9: for valid parameters, at every sample the vector from the Earth to  *)
(* the Moon has length earthMoonDistance * moonScaleFactor and the         *)
(* direction moonRate * t, whatever the scale factor.                      *)
(***************************************************************************)
C9_MoonOffset ==
    (event = "submit" /\ Valid(vals)) =>
        \A i \in 1..Size(t) :
            LET dx == LinSub(At(xm, i), At(xe, i))
                dy == LinSub(At(ym, i), At(ye, i))
            IN  /\ Magnitude(dx, dy) = Mul(vals.EM_DIST, vals.SCALE)
                /\ Direction(dx, dy) = Reduce(Mul(calc_omega(vals.MONTH), At(t, i).c))

C9_Witness ==
    /\ event = "submit" /\ Valid(vals)
    /\ entries = [k \in Keys |-> config_items[k]]
    /\ Magnitude(LinSub(At(xm, 5000), At(xe, 5000)), LinSub(At(ym, 5000), At(ye, 5000)))
         = Lit(19220000)

ZeroPeriod(e) == IsZero(float(e.YEAR).v) \/ IsZero(float(e.MONTH).v)

(***************************************************************************)
(* C10: a submission in which every text converts and yearLengthDays or    *)
(* monthLengthDays is zero ends in a division by zero that the handler     *)
(* does not catch: no dialog, no renderer call; the window stays, and a    *)
(* later submission of valid values is rendered.                           *)
(***************************************************************************)
C10_ZeroPeriodUnhandled ==
    /\ (event = "submit" /\ AllParse(entries) /\ ZeroPeriod(entries)) =>
          /\ outcome = "ZeroDivisionError"
          /\ calls = << >>
          /\ reported
          /\ running
    /\ (event = "submit" /\ reported /\ ValidTexts(entries)) =>
          /\ outcome = "shown"
          /\ calls # << >> /\ calls[Len(calls)].op = "plt.show"

C10_Witness ==
    /\ event = "submit"
    /\ reported
    /\ ValidTexts(entries)
    /\ outcome = "shown"
====
